---- MODULE Spec2Model ----
(***************************************************************************)
(* A model of the Go package fuzzy (fuzzy.go): query parsing, the filter  *)
(* predicate, the proximity scorer, the Levenshtein scorer, the search    *)
(* loop, the chunked parallel runner and SortMatches.                     *)
(*                                                                         *)
(* A Go string is a sequence of bytes (0..255) holding valid UTF-8.  The   *)
(* model covers one- and two-byte encodings (code points below 2048) and  *)
(* the case and white-space tables of the code points below 256 and of   *)
(* U+03D2, an upper-case letter that has no lower-case form.              *)
(***************************************************************************)
EXTENDS Integers, Sequences, FiniteSets, TLC

(***************************************************************************)
(* Strings                                                                 *)
(***************************************************************************)

\* The UTF-8 encoding of the characters used by the inputs of the model.
Utf8 ==
  "a" :> <<97>> @@ "c" :> <<99>> @@ "e" :> <<101>> @@ "g" :> <<103>> @@
  "i" :> <<105>> @@ "l" :> <<108>> @@ "n" :> <<110>> @@ "o" :> <<111>> @@
  "p" :> <<112>> @@ "r" :> <<114>> @@ "s" :> <<115>> @@ "t" :> <<116>> @@
  "w" :> <<119>> @@ "A" :> <<65>> @@ "C" :> <<67>> @@ "E" :> <<69>> @@
  "S" :> <<83>> @@ "T" :> <<84>> @@ " " :> <<32>> @@ "*" :> <<42>> @@
  "$" :> <<36>> @@ "^" :> <<94>> @@ "!" :> <<33>> @@
  "eacute" :> <<195, 169>> @@ "EACUTE" :> <<195, 137>> @@
  "UPSILONHOOK" :> <<207, 146>>

RECURSIVE Str(_)
\* The Go string literal spelled by a sequence of characters.
Str(chars) ==
  IF chars = <<>> THEN <<>> ELSE Utf8[Head(chars)] \o Str(Tail(chars))

\* s[from:] of Go, from a byte offset counted from 0.
SliceFrom(s, from) == SubSeq(s, from + 1, Len(s))

\* s[:to] of Go.
SliceTo(s, to) == SubSeq(s, 1, to)

\* utf8.RuneLen for the code points the model covers.
RuneLen(r) == IF r < 128 THEN 1 ELSE 2

\* The UTF-8 encoding of one code point.
EncodeRune(r) ==
  IF r < 128 THEN <<r>> ELSE <<192 + (r \div 64), 128 + (r % 64)>>

RECURSIVE RunesFrom(_, _)
\* "for i, r := range s": the code points of s from byte offset i on, each
\* with the byte offset at which it starts.
RunesFrom(s, i) ==
  IF i >= Len(s) THEN <<>>
  ELSE IF s[i + 1] < 128
       THEN <<[i |-> i, r |-> s[i + 1]]>> \o RunesFrom(s, i + 1)
       ELSE <<[i |-> i, r |-> (s[i + 1] - 192) * 64 + (s[i + 2] - 128)]>>
            \o RunesFrom(s, i + 2)

Runes(s) == RunesFrom(s, 0)

\* unicode.IsUpper on the code points below 256 and on U+03D2.
IsUpperRune(r) == r \in 65..90 \/ (r \in 192..222 /\ r # 215) \/ r = 978

\* unicode.ToLower on the same code points: U+03D2 has no lower-case form.
ToLowerRune(r) ==
  IF r \in 65..90 \/ (r \in 192..222 /\ r # 215) THEN r + 32 ELSE r

\* unicode.IsSpace on the code points below 256.
IsSpaceRune(r) == r \in {9, 10, 11, 12, 13, 32, 133, 160}

RECURSIVE EncodeAll(_)
EncodeAll(rs) ==
  IF rs = <<>> THEN <<>> ELSE EncodeRune(Head(rs).r) \o EncodeAll(Tail(rs))

\* strings.ToLower
ToLower(s) ==
  LET rs == Runes(s)
  IN  EncodeAll([k \in 1..Len(rs) |-> [i |-> rs[k].i, r |-> ToLowerRune(rs[k].r)]])

\* removeWhitespace: strings.Map dropping every white-space code point.
removeWhitespace(s) ==
  EncodeAll(SelectSeq(Runes(s), LAMBDA x : ~IsSpaceRune(x.r)))

\* isUpper: the word holds at least one upper-case code point.
isUpper(w) ==
  IF Len(w) = 0 THEN FALSE
  ELSE \E k \in 1..Len(Runes(w)) : IsUpperRune(Runes(w)[k].r)

\* strings.HasPrefix
HasPrefix(s, p) == Len(s) >= Len(p) /\ SliceTo(s, Len(p)) = p

\* strings.HasSuffix
HasSuffix(s, p) == Len(s) >= Len(p) /\ SliceFrom(s, Len(s) - Len(p)) = p

\* strings.Index: the least byte offset at which sep occurs in s, or -1.
Index(s, sep) ==
  LET at == {k \in 0..(Len(s) - Len(sep)) : SubSeq(s, k + 1, k + Len(sep)) = sep}
  IN  IF at = {} THEN -1 ELSE CHOOSE k \in at : \A j \in at : k <= j

\* strings.Contains
Contains(s, sub) == Index(s, sub) >= 0

\* strings.Cut, with before and after already joined as input does.
CutJoin(s, sep) ==
  LET k == Index(s, sep)
  IN  IF k >= 0
      THEN [s |-> SliceTo(s, k) \o SliceFrom(s, k + Len(sep)), found |-> TRUE]
      ELSE [s |-> s, found |-> FALSE]

\* strings.CutSuffix
CutSuffix(s, suffix) ==
  IF HasSuffix(s, suffix)
  THEN [s |-> SliceTo(s, Len(s) - Len(suffix)), found |-> TRUE]
  ELSE [s |-> s, found |-> FALSE]

\* strings.CutPrefix
CutPrefix(s, prefix) ==
  IF HasPrefix(s, prefix)
  THEN [s |-> SliceFrom(s, Len(prefix)), found |-> TRUE]
  ELSE [s |-> s, found |-> FALSE]

RECURSIVE Split(_, _)
\* strings.SplitSeq(q, sep) for a one-byte separator: the tokens of q.
Split(q, sep) ==
  LET k == Index(q, sep)
  IN  IF k < 0 THEN <<q>>
      ELSE <<SliceTo(q, k)>> \o Split(SliceFrom(q, k + 1), sep)

(***************************************************************************)
(* input: the query parser and the filter predicate                        *)
(***************************************************************************)

\* The strings "*", "$", "^" and " ".
Star   == <<42>>
Dollar == <<36>>
Caret  == <<94>>
Space  == <<32>>

\* A token is a filter when it starts with *, $ or ^.
IsFilterToken(w) ==
  HasPrefix(w, Star) \/ HasPrefix(w, Dollar) \/ HasPrefix(w, Caret)

RECURSIVE Concat(_)
Concat(ws) == IF ws = <<>> THEN <<>> ELSE Head(ws) \o Concat(Tail(ws))

\* input taking the case flag from the whole query, filter tokens included.
inputCaseFromQuery(q) ==
  IF q = <<>>
  THEN [term |-> <<>>, f |-> <<>>, upper |-> FALSE, empty |-> TRUE]
  ELSE LET ws == Split(q, Space)
       IN  [term  |-> Concat(SelectSeq(ws, LAMBDA w : ~IsFilterToken(w))),
            f     |-> SelectSeq(ws, IsFilterToken),
            upper |-> isUpper(q),
            empty |-> FALSE]

\* input: the bare term, the filter tokens in query order, the case flag
\* taken from the term, and whether the query was empty (the predicate of an
\* empty query returns the candidate as it is).
input(q) ==
  IF q = <<>>
  THEN [term |-> <<>>, f |-> <<>>, upper |-> FALSE, empty |-> TRUE]
  ELSE LET ws == Split(q, Space)
           b  == Concat(SelectSeq(ws, LAMBDA w : ~IsFilterToken(w)))
       IN  [term  |-> b,
            f     |-> SelectSeq(ws, IsFilterToken),
            upper |-> isUpper(b),
            empty |-> FALSE]

\* ApplyFilter with the filter lower-cased as the candidate is.
ApplyFilterLowered(fv, s) ==
  CASE HasPrefix(fv, Star)   -> CutJoin(s, ToLower(SliceFrom(fv, 1)))
    [] HasPrefix(fv, Dollar) -> CutSuffix(s, ToLower(SliceFrom(fv, 1)))
    [] HasPrefix(fv, Caret)  -> CutPrefix(s, ToLower(SliceFrom(fv, 1)))
    [] OTHER -> [s |-> s, found |-> TRUE]

\* One filter applied to the string the previous filters left.
ApplyFilter(fv, s) ==
  CASE HasPrefix(fv, Star)   -> CutJoin(s, SliceFrom(fv, 1))
    [] HasPrefix(fv, Dollar) -> CutSuffix(s, SliceFrom(fv, 1))
    [] HasPrefix(fv, Caret)  -> CutPrefix(s, SliceFrom(fv, 1))
    [] OTHER -> [s |-> s, found |-> TRUE]

RECURSIVE FilterLoop(_, _, _, _)
\* The loop over the filters: a failed filter ends it with ("", false) when
\* another filter follows, and with the white-space-free string and false
\* when it was the last one.
FilterLoop(f, k, s, found) ==
  IF k > Len(f) THEN [s |-> removeWhitespace(s), found |-> found]
  ELSE IF ~found THEN [s |-> <<>>, found |-> FALSE]
  ELSE LET a == ApplyFilter(f[k], s)
       IN  FilterLoop(f, k + 1, a.s, a.found)

\* The predicate input returns, applied to the candidate s.
Predicate(p, s) ==
  IF p.empty THEN [s |-> s, found |-> TRUE]
  ELSE LET cs == IF ~p.upper THEN ToLower(s) ELSE s
       IN  IF Len(p.f) = 0
           THEN [s |-> removeWhitespace(cs), found |-> TRUE]
           ELSE FilterLoop(p.f, 1, cs, TRUE)

(***************************************************************************)
(* matchScore: the proximity scorer                                        *)
(***************************************************************************)

\* The inner loop "for i, sr := range s": the first code point of s equal to
\* qr, as its index in Runes(s), or 0 when there is none.
FirstRune(s, qr) ==
  LET rs == Runes(s)
      at == {j \in 1..Len(rs) : rs[j].r = qr}
  IN  IF at = {} THEN 0 ELSE CHOOSE j \in at : \A k \in at : j <= k

RECURSIVE MatchLoopNoAdvance(_, _, _, _)
\* MatchLoop with "s = s[i:]": the matched code point stays in what is left.
MatchLoopNoAdvance(qr, k, s, distance) ==
  IF k > Len(qr) THEN distance
  ELSE LET j == FirstRune(s, qr[k].r)
       IN  IF j = 0 THEN -1
           ELSE LET sr == Runes(s)[j]
                IN  MatchLoopNoAdvance(qr, k + 1, SliceFrom(s, sr.i),
                      IF qr[k].i > 0 THEN distance + sr.i ELSE distance)

RECURSIVE MatchLoopCountFirst(_, _, _, _)
\* MatchLoop without "if index > 0": the characters before the first match
\* count as distance too.
MatchLoopCountFirst(qr, k, s, distance) ==
  IF k > Len(qr) THEN distance
  ELSE LET j == FirstRune(s, qr[k].r)
       IN  IF j = 0 THEN -1
           ELSE LET sr == Runes(s)[j]
                IN  MatchLoopCountFirst(qr, k + 1,
                      SliceFrom(s, sr.i + RuneLen(sr.r)), distance + sr.i)

RECURSIVE MatchLoop(_, _, _, _)
\* The loop Outer of matchScore over the code points qr[k..] of the term: s is
\* what is left of the candidate, distance the running distance.  -1 when a
\* code point of the term is not found in what is left.
MatchLoop(qr, k, s, distance) ==
  IF k > Len(qr) THEN distance
  ELSE LET j == FirstRune(s, qr[k].r)
       IN  IF j = 0 THEN -1
           ELSE LET sr == Runes(s)[j]
                IN  MatchLoop(qr, k + 1, SliceFrom(s, sr.i + RuneLen(sr.r)),
                              IF qr[k].i > 0 THEN distance + sr.i ELSE distance)

\* matchScore(q, s, f), p being the parsed query whose predicate is f.
matchScore(q, line, p) ==
  LET fr == Predicate(p, line)
      s  == fr.s
      ql == Len(q)
      sl == Len(s)
  IN  IF ~fr.found \/ sl < ql THEN -1
      ELSE IF q = s \/ q = <<>> THEN 0
      ELSE IF Contains(s, q) THEN sl - ql
      ELSE LET distance == MatchLoop(Runes(q), 1, s, 0)
           IN  IF distance < 0 THEN -1 ELSE sl - ql + distance

(***************************************************************************)
(* levenshteinScore: the edit-distance scorer                              *)
(***************************************************************************)

\* int(float64(ql) * 0.6); the float64 product truncates to the same integer
\* as 6*ql div 10 for every length below 2000.
MinFind(ql) == (ql * 6) \div 10

RECURSIVE CoverLoopSkip(_, _, _, _, _)
\* CoverLoop going on to the next term code point, instead of returning -1,
\* when one is not found.
CoverLoopSkip(qr, k, sc, founded, minFind) ==
  IF k > Len(qr) THEN founded >= minFind
  ELSE IF founded >= minFind THEN TRUE
  ELSE LET j == FirstRune(sc, qr[k].r)
       IN  IF j = 0 THEN CoverLoopSkip(qr, k + 1, sc, founded, minFind)
           ELSE LET sr == Runes(sc)[j]
                IN  CoverLoopSkip(qr, k + 1, SliceFrom(sc, sr.i + RuneLen(sr.r)),
                                  founded + 1, minFind)

RECURSIVE CoverLoop(_, _, _, _, _)
\* The coverage loop Outer of levenshteinScore: TRUE when the loop is left by
\* break or by running out of term code points, FALSE when it returns -1.
CoverLoop(qr, k, sc, founded, minFind) ==
  IF k > Len(qr) THEN TRUE
  ELSE IF founded >= minFind THEN TRUE
  ELSE LET j == FirstRune(sc, qr[k].r)
       IN  IF j = 0 THEN FALSE
           ELSE LET sr == Runes(sc)[j]
                IN  CoverLoop(qr, k + 1, SliceFrom(sc, sr.i + RuneLen(sr.r)),
                              founded + 1, minFind)

\* min of three ints
Min3(a, b, c) ==
  IF a <= b THEN (IF a <= c THEN a ELSE c) ELSE (IF b <= c THEN b ELSE c)

RECURSIVE LevInner(_, _, _, _)
\* "for y := 1; y <= ql; y++" for one x, st holding y, the buffer and
\* lastDiag; column[y] of Go is column[y + 1] here.
LevInner(q, s, x, st) ==
  IF st.y > Len(q) THEN st.column
  ELSE LET y       == st.y
           oldDiag == st.column[y + 1]
           cost    == IF q[y] # s[x] THEN 1 ELSE 0
           cell    == Min3(st.column[y + 1] + 1, st.column[y] + 1,
                           st.lastDiag + cost)
       IN  LevInner(q, s, x, [y        |-> y + 1,
                              column   |-> [st.column EXCEPT ![y + 1] = cell],
                              lastDiag |-> oldDiag])

RECURSIVE LevOuter(_, _, _)
\* "for x := 1; x <= sl; x++", st holding x and the buffer.
LevOuter(q, s, st) ==
  IF st.x > Len(s) THEN st.column
  ELSE LevOuter(q, s,
         [x      |-> st.x + 1,
          column |-> LevInner(q, s, st.x,
                       [y        |-> 1,
                        column   |-> [st.column EXCEPT ![1] = st.x],
                        lastDiag |-> st.x - 1])])

\* The buffer left as the candidate before left it.
ResetColumnKeep(column, i, ql) == column

RECURSIVE ResetColumn(_, _, _)
\* "for i := 0; i <= ql; i++ { column[i] = i }"
ResetColumn(column, i, ql) ==
  IF i > ql THEN column
  ELSE ResetColumn([column EXCEPT ![i + 1] = i], i + 1, ql)

\* levenshteinScore(q, s, f, column): the score and the buffer as it is left.
levenshteinScore(q, line, p, column) ==
  LET fr == Predicate(p, line)
      s  == fr.s
      ql == Len(q)
      sl == Len(s)
  IN  IF ~fr.found \/ sl < ql THEN [score |-> -1, column |-> column]
      ELSE IF q = s \/ q = <<>> THEN [score |-> 0, column |-> column]
      ELSE IF Contains(s, q) THEN [score |-> sl - ql, column |-> column]
      ELSE IF ~CoverLoop(Runes(q), 1, s, 0, MinFind(ql))
           THEN [score |-> -1, column |-> column]
           ELSE LET c == LevOuter(q, s, [x |-> 1, column |-> ResetColumn(column, 0, ql)])
                IN  [score |-> c[ql + 1], column |-> c]

(***************************************************************************)
(* find, Find, LevenshteinFind                                             *)
(***************************************************************************)

RECURSIVE Zeros(_)
\* make([]int, n): n zeroes.
Zeros(n) == IF n = 0 THEN <<>> ELSE Append(Zeros(n - 1), 0)

\* make([]int, len(queryValue)+1): the buffer of one LevenshteinFind call.
NewColumn(queryValue) == Zeros(Len(queryValue) + 1)

\* One pass of the loop of find over candidate s[i + 1] (Go index i) with the
\* scorer algo: the score, the matches and the buffer after it.
FindStep(algo, p, s, i, m, column) ==
  LET res == IF algo = "match"
             THEN [score |-> matchScore(p.term, s[i + 1], p), column |-> column]
             ELSE levenshteinScore(p.term, s[i + 1], p, column)
  IN  [score  |-> res.score,
       m      |-> IF res.score >= 0
                  THEN Append(m, [Score |-> res.score, Position |-> i])
                  ELSE m,
       column |-> res.column]

RECURSIVE FindLoop(_, _, _, _, _, _)
\* The loop "for i, l := range s" of find over the Go indexes lo..hi-1,
\* entered with acc, the matches and the buffer so far.  The passes run in
\* index order, each on what the one before it left; the range is halved only
\* to keep the evaluation shallow.
FindLoop(algo, p, s, lo, hi, acc) ==
  IF lo >= hi THEN acc
  ELSE IF hi = lo + 1
  THEN LET st == FindStep(algo, p, s, lo, acc.m, acc.column)
       IN  [m |-> st.m, column |-> st.column]
  ELSE LET mid  == (lo + hi) \div 2
           left == FindLoop(algo, p, s, lo, mid, acc)
       IN  \* m has capacity len(s) and never outgrows it; testing it makes
           \* TLC evaluate the first half before it enters the second.
           IF Len(left.m) <= Len(s)
           THEN FindLoop(algo, p, s, mid, hi, left)
           ELSE left

\* find(q, s, fn): the matches in scan order.
find(q, s, algo) ==
  FindLoop(algo, input(q), s, 0, Len(s), [m |-> <<>>, column |-> NewColumn(q)]).m

Find(queryValue, source) == find(queryValue, source, "match")

LevenshteinFind(queryValue, source) == find(queryValue, source, "lev")

(***************************************************************************)
(* SortMatches                                                             *)
(***************************************************************************)

\* Cmp without the tie-break on the position.
CmpScoreOnly(a, b) == a.Score - b.Score

\* The comparison function SortMatches hands to slices.SortFunc.
Cmp(a, b) ==
  IF a.Score = b.Score THEN a.Position - b.Position ELSE a.Score - b.Score

RECURSIVE SortInner(_, _)
\* "for j := i; j > a && cmp(data[j], data[j-1]) < 0; j--" swapping data[j]
\* and data[j-1]; j is a Go index, data[j] of Go is data[j + 1] here.
SortInner(data, j) ==
  IF j > 0 /\ Cmp(data[j + 1], data[j]) < 0
  THEN SortInner([data EXCEPT ![j + 1] = data[j], ![j] = data[j + 1]], j - 1)
  ELSE data

RECURSIVE SortOuter(_, _)
\* slices.SortFunc on a slice of at most 12 elements is this insertion sort.
SortOuter(data, i) ==
  IF i >= Len(data) THEN data ELSE SortOuter(SortInner(data, i), i + 1)

\* SortMatches(m): m sorted in place and returned.
SortMatches(mm) == SortOuter(mm, 1)

(***************************************************************************)
(* The inputs                                                              *)
(***************************************************************************)

MaxTokens  == 2     \* tokens of a generated query
MaxLineLen == 3     \* characters of a generated candidate
MaxMatches == 3     \* matches handed to SortMatches
MaxScore   == 2     \* their scores are 0..MaxScore
MaxPos     == 2     \* their positions are 0..MaxPos

RECURSIVE Join(_)
\* The tokens joined by single spaces.
Join(ws) ==
  IF Len(ws) = 1 THEN Head(ws) ELSE Head(ws) \o Space \o Join(Tail(ws))

RECURSIVE SeqsUpTo(_, _)
\* The sequences over S of length 0..n.
SeqsUpTo(S, n) ==
  IF n = 0 THEN {<<>>}
  ELSE LET shorter == SeqsUpTo(S, n - 1)
       IN  shorter \cup {Append(w, x) : w \in shorter, x \in S}

GenTokens ==
  {Str(<<"c">>), Str(<<"a">>), Str(<<"t">>),
   Str(<<"^", "c">>), Str(<<"*", "a">>), Str(<<"$", "t">>)}

SpecialQueries ==
  {<<>>,
   Str(<<"$", "t", " ", "c", "a">>),
   Str(<<"c", "a", "w">>),
   Str(<<"$", "t", " ", "c", "a", "w">>),
   Str(<<"$", "t", " ", "c", "t">>),
   Str(<<"t", "s", "t">>),
   Str(<<"t", "e", "s", "t">>),
   Str(<<"T", "e", "s", "t">>),
   Str(<<"t", "s", "e", "t">>),
   Str(<<"t", "a", "s", "t">>),
   Str(<<"e", "s", "t", " ", "*", "T">>),
   Str(<<"^", "T", " ", "E", "S">>),
   Str(<<"*", "e", "s", "t", " ", "i">>),
   Str(<<"eacute">>),
   Str(<<"eacute", "a", "c", "t">>),
   Str(<<"EACUTE">>),
   Str(<<"!", "*", "a", " ", "c">>),
   Str(<<"c", "e", "t">>),
   Str(<<"*", "UPSILONHOOK", " ", "a">>),
   Str(<<"*">>)}

Queries ==
  {Join(ws) : ws \in SeqsUpTo(GenTokens, MaxTokens) \ {<<>>}} \cup SpecialQueries

GenLines ==
  {Concat(w) : w \in SeqsUpTo({Str(<<"c">>), Str(<<"a">>), Str(<<"t">>)}, MaxLineLen)}

cart == Str(<<"c", "a", "r", "t">>)
clap == Str(<<"c", "l", "a", "p">>)
ca   == Str(<<"c", "a">>)
cat  == Str(<<"c", "a", "t">>)
cow  == Str(<<"c", "o", "w">>)

\* The list of the examples of the README.
Data == <<cart, clap, ca, cat, cow>>

SpecialLines ==
  {cart, clap, cow,
   Str(<<"t", "e", "s", "t">>),
   Str(<<"T", "E", "S", "T">>),
   Str(<<"T", "e", "s", "t">>),
   Str(<<"t", "e", "n", "t">>),
   Str(<<"t", "e", "s", "t", "i", "n", "g">>),
   Str(<<"c", " ", "a", "T">>),
   Str(<<"c", " ", "a", "t", " ", "t">>),
   Str(<<"a", "eacute">>),
   Str(<<"eacute", "c", "a", "t">>),
   Str(<<"EACUTE", " ", "a">>),
   Str(<<"a", "eacute", "c", "eacute", "t">>),
   Str(<<"c", "eacute", "t">>),
   Str(<<"UPSILONHOOK", "a">>)}

Lines == GenLines \cup SpecialLines

\* One-candidate sources, the README list, and lists scored with one buffer.
FindSources ==
  {<<l>> : l \in Lines}
  \cup {<<>>, Data,
        <<Str(<<"t", "e", "s", "t", "i", "n", "g">>), Str(<<"t", "e", "n", "t">>),
          Str(<<"t", "e", "s", "t">>), Str(<<"t", "t", "e", "s">>)>>}

Matches == [Score : 0..MaxScore, Position : 0..MaxPos]

(***************************************************************************)
(* The state                                                               *)
(***************************************************************************)

VARIABLES
  query, source, algo,      \* the arguments of the call under way
  fpc, p, i, score, m, column,
                            \* find: its position, the parsed query, the number
                            \* of candidates scored, the last score, the
                            \* matches, the buffer of LevenshteinFind
  spc, sm0, sm,             \* SortMatches: its position, the slice as it was
                            \* handed in, the slice
  cpc, cpu, cs, cc, si,     \* chunkFind: its position, cpu, cs, cc, the loop
                            \* variable i of the spawning loop
  wg, rChan, closed,        \* the WaitGroup counter, the buffer of rChan,
                            \* whether rChan is closed
  tpc, tmm,                 \* per chunk task: its position and its mm
  lpc,                      \* the position of the task that closes rChan
  r,                        \* the result of chunkFind
  want,                     \* what algo returns on the whole source
  heap, tbuf, tn            \* the buffers LevenshteinFind has allocated, and
                            \* per chunk task scored a candidate at a time:
                            \* the buffer it holds and the candidates it has
                            \* scored

findVars == <<fpc, p, i, score, m, column>>
sortVars == <<spc, sm0, sm>>
chunkVars == <<cpc, cpu, cs, cc, si, wg, rChan, closed, tpc, tmm, lpc, r, want>>
heapVars == <<heap, tbuf, tn>>
vars == <<query, source, algo, findVars, sortVars, chunkVars, heapVars>>

NoQuery == [term |-> <<>>, f |-> <<>>, upper |-> FALSE, empty |-> TRUE]

FindIdle ==
  /\ fpc = "idle" /\ p = NoQuery /\ i = 0 /\ score = 0 /\ m = <<>>
  /\ column = <<>>

SortIdle == spc = "idle" /\ sm0 = <<>> /\ sm = <<>>

ChunkIdle ==
  /\ cpc = "idle" /\ cpu = 0 /\ cs = 0 /\ cc = 0 /\ si = 0 /\ wg = 0
  /\ rChan = <<>> /\ closed = FALSE /\ tpc = <<>> /\ tmm = <<>>
  /\ lpc = "idle" /\ r = <<>> /\ want = <<>>

HeapIdle == heap = <<>> /\ tbuf = <<>> /\ tn = <<>>

(***************************************************************************)
(* Find and LevenshteinFind, one candidate a step                          *)
(***************************************************************************)

\* The call: LevenshteinFind allocates its buffer, find parses the query and
\* makes the empty result.
FindCall ==
  /\ fpc = "call"
  /\ p' = input(query)
  /\ column' = IF algo = "lev" THEN NewColumn(query) ELSE <<>>
  /\ m' = <<>>
  /\ i' = 0
  /\ fpc' = "loop"
  /\ UNCHANGED <<heapVars, query, source, algo, score, sortVars, chunkVars>>

\* One pass of the loop of find.
FindScore ==
  /\ fpc = "loop"
  /\ i < Len(source)
  /\ LET st == FindStep(algo, p, source, i, m, column)
     IN  /\ score' = st.score
         /\ m' = st.m
         /\ column' = st.column
  /\ i' = i + 1
  /\ UNCHANGED <<heapVars, query, source, algo, fpc, p, sortVars, chunkVars>>

\* The loop is over: find returns m.
FindReturn ==
  /\ fpc = "loop"
  /\ i >= Len(source)
  /\ fpc' = "done"
  /\ UNCHANGED <<heapVars, query, source, algo, p, i, score, m, column, sortVars, chunkVars>>

InitFind ==
  /\ query \in Queries
  /\ source \in FindSources
  /\ algo = "match"
  /\ fpc = "call" /\ p = NoQuery /\ i = 0 /\ score = 0 /\ m = <<>>
  /\ column = <<>>
  /\ SortIdle
  /\ ChunkIdle
  /\ HeapIdle

InitLev ==
  /\ query \in Queries
  /\ source \in FindSources
  /\ algo = "lev"
  /\ fpc = "call" /\ p = NoQuery /\ i = 0 /\ score = 0 /\ m = <<>>
  /\ column = <<>>
  /\ SortIdle
  /\ ChunkIdle
  /\ HeapIdle

NextFind == FindCall \/ FindScore \/ FindReturn

\* Find on every query and source of the model.
SpecFind == InitFind /\ [][NextFind]_vars

\* LevenshteinFind on every query and source of the model.
SpecLev == InitLev /\ [][NextFind]_vars

InitSearch ==
  /\ query \in Queries
  /\ source \in FindSources
  /\ algo \in {"match", "lev"}
  /\ fpc = "call" /\ p = NoQuery /\ i = 0 /\ score = 0 /\ m = <<>>
  /\ column = <<>>
  /\ SortIdle
  /\ ChunkIdle
  /\ HeapIdle

\* Find and LevenshteinFind on every query and source of the model.
SpecSearch == InitSearch /\ [][NextFind]_vars

(***************************************************************************)
(* SortMatches as a call                                                   *)
(***************************************************************************)

SortCall ==
  /\ spc = "call"
  /\ sm' = SortMatches(sm)
  /\ spc' = "done"
  /\ UNCHANGED <<heapVars, query, source, algo, findVars, sm0, chunkVars>>

InitSort ==
  /\ query = <<>> /\ source = <<>> /\ algo = "match"
  /\ FindIdle
  /\ sm0 \in SeqsUpTo(Matches, MaxMatches)
  /\ sm = sm0
  /\ spc = "call"
  /\ ChunkIdle
  /\ HeapIdle

NextSort == SortCall

SpecSort == InitSort /\ [][NextSort]_vars

(***************************************************************************)
(* chunkFind                                                               *)
(***************************************************************************)

MaxCPU   == 4      \* min(4, runtime.NumCPU()/2)
ChunkMin == 500    \* len(source) <= cpu*500 runs algo on the whole source

MaxNumCPU == 8     \* runtime.NumCPU() is 1..MaxNumCPU
MaxExtra  == 1     \* sources are up to MaxExtra longer than a multiple of ChunkMin
Stride    == 83    \* every Stride-th candidate of a long source is not empty

Min(a, b) == IF a <= b THEN a ELSE b

\* source[lo:hi] of Go.
Slice(s, lo, hi) == SubSeq(s, lo + 1, hi)

\* "for j := range mm { mm[j].Position += i * cs }"
Offset(mm, by) ==
  [j \in 1..Len(mm) |-> [mm[j] EXCEPT !.Position = mm[j].Position + by]]

\* TaskBody moving the positions by i times the length of the task's own
\* chunk.
TaskBodyOwnLength(q, chunk, a, ti, chunkSize) ==
  Offset(find(q, chunk, a), ti * Len(chunk))

\* The body of chunk task i up to its send: algo on the chunk handed to the
\* task, then the positions moved by i * cs.
TaskBody(q, chunk, a, ti, chunkSize) == Offset(find(q, chunk, a), ti * chunkSize)

\* The chunk the go statement of pass i hands to its task.
Chunk(s, ti, chunkSize) ==
  Slice(s, ti * chunkSize, Min(ti * chunkSize + chunkSize, Len(s)))

\* chunkFind is called and runs algo on the whole source: cpu <= 1 or the
\* source is not longer than cpu*500.
ChunkDirect ==
  /\ cpc = "call"
  /\ \E numCPU \in 1..MaxNumCPU :
       /\ cpu' = Min(MaxCPU, numCPU \div 2)
       /\ cpu' <= 1 \/ Len(source) <= cpu' * ChunkMin
  /\ r' = find(query, source, algo)
  /\ want' = r'
  /\ cpc' = "done"
  /\ UNCHANGED <<heapVars, query, source, algo, findVars, sortVars, cs, cc, si, wg, rChan,
                 closed, tpc, tmm, lpc>>

\* As many chunks as the source has candidates divided by the chunk size,
\* rounded down.
ChunkCountFloor(n, chunkSize) == n \div chunkSize

\* "cc := (len(source) + cs - 1) / cs"
ChunkCount(n, chunkSize) == (n + chunkSize - 1) \div chunkSize

\* chunkFind is called and takes the parallel path: cs, cc, the channel of
\* capacity cc, wg.Add(cc).
ChunkSplit ==
  /\ cpc = "call"
  /\ \E numCPU \in 1..MaxNumCPU :
       /\ cpu' = Min(MaxCPU, numCPU \div 2)
       /\ ~(cpu' <= 1 \/ Len(source) <= cpu' * ChunkMin)
  /\ cs' = Len(source) \div cpu'
  /\ cc' = ChunkCount(Len(source), cs')
  /\ rChan' = <<>>
  /\ closed' = FALSE
  /\ wg' = cc'
  /\ si' = 0
  /\ tpc' = [k \in 1..cc' |-> "none"]
  /\ tmm' = [k \in 1..cc' |-> <<>>]
  /\ want' = find(query, source, algo)
  /\ cpc' = "spawn"
  /\ UNCHANGED <<heapVars, query, source, algo, findVars, sortVars, lpc, r>>

\* Pass si of "for i := range cc": the go statement starts task si on its
\* chunk.  The task's steps up to its send touch nothing another task or the
\* caller looks at (algo allocates what it writes, the chunk is only read), so
\* they are taken here, with the start of the task; task si is tpc[si + 1].
Spawn ==
  /\ cpc = "spawn"
  /\ si < cc
  /\ tmm' = [tmm EXCEPT ![si + 1] = TaskBody(query, Chunk(source, si, cs), algo, si, cs)]
  /\ tpc' = [tpc EXCEPT ![si + 1] = "send"]
  /\ si' = si + 1
  /\ UNCHANGED <<heapVars, query, source, algo, findVars, sortVars, cpc, cpu, cs, cc, wg,
                 rChan, closed, lpc, r, want>>

\* The loop is over: the task that waits and closes is started, r is made.
SpawnCloser ==
  /\ cpc = "spawn"
  /\ si >= cc
  /\ lpc' = "wait"
  /\ r' = <<>>
  /\ cpc' = "recv"
  /\ UNCHANGED <<heapVars, query, source, algo, findVars, sortVars, cpu, cs, cc, si, wg,
                 rChan, closed, tpc, tmm, want>>

\* A channel with room for one result less than there are chunks.
ChanCapOneLess(chunks) == chunks - 1

\* "rChan := make(chan []Match, cc)": the capacity of rChan.
ChanCap(chunks) == chunks

\* "rChan <- mm" of task t: it needs room in the buffer.
TaskSend(t) ==
  /\ tpc[t] = "send"
  /\ Len(rChan) < ChanCap(cc)
  /\ rChan' = Append(rChan, tmm[t])
  /\ tpc' = [tpc EXCEPT ![t] = "sent"]
  /\ UNCHANGED <<heapVars, query, source, algo, findVars, sortVars, cpc, cpu, cs, cc, si,
                 wg, closed, tmm, lpc, r, want>>

\* The deferred wg.Done() of task t.
TaskDone(t) ==
  /\ tpc[t] = "sent"
  /\ wg' = wg - 1
  /\ tpc' = [tpc EXCEPT ![t] = "exit"]
  /\ UNCHANGED <<heapVars, query, source, algo, findVars, sortVars, cpc, cpu, cs, cc, si,
                 rChan, closed, tmm, lpc, r, want>>

\* wg.Wait() returns and rChan is closed.
CloserClose ==
  /\ lpc = "wait"
  /\ wg = 0
  /\ closed' = TRUE
  /\ lpc' = "exit"
  /\ UNCHANGED <<heapVars, query, source, algo, findVars, sortVars, cpc, cpu, cs, cc, si,
                 wg, rChan, tpc, tmm, r, want>>

\* One pass of "for mm := range rChan": r = append(r, mm...).
Receive ==
  /\ cpc = "recv"
  /\ rChan # <<>>
  /\ r' = r \o Head(rChan)
  /\ rChan' = Tail(rChan)
  /\ UNCHANGED <<heapVars, query, source, algo, findVars, sortVars, cpc, cpu, cs, cc, si,
                 wg, closed, tpc, tmm, lpc, want>>

\* rChan is closed and drained: chunkFind returns r.
ChunkReturn ==
  /\ cpc = "recv"
  /\ rChan = <<>>
  /\ closed
  /\ cpc' = "done"
  /\ UNCHANGED <<heapVars, query, source, algo, findVars, sortVars, cpu, cs, cc, si, wg,
                 rChan, closed, tpc, tmm, lpc, r, want>>

\* A source of n candidates: the README list over and over, thinned out to
\* every Stride-th candidate and the last one when it is long.
LongSource(n) ==
  LET f == [k \in 1..n |->
              IF n <= ChunkMin \/ (k - 1) % Stride = 0 \/ k = n
              THEN Data[((((k - 1) \div Stride) + k) % 5) + 1]
              ELSE <<>>]
  IN  SubSeq(f, 1, n)

ChunkLens ==
  {c * ChunkMin + e : c \in {0} \cup 2..MaxCPU, e \in 0..MaxExtra}
  \cup {Len(Data)}

\* ChunkFind and ChunkLevenshteinFind with their queries.
ChunkCalls ==
  {<<"match", Str(<<"$", "t", " ", "c", "a">>)>>,
   <<"lev", Str(<<"c", "a", "w">>)>>}

InitChunk ==
  /\ \E call \in ChunkCalls : algo = call[1] /\ query = call[2]
  /\ source \in {LongSource(n) : n \in ChunkLens}
  /\ FindIdle
  /\ SortIdle
  /\ cpc = "call" /\ cpu = 0 /\ cs = 0 /\ cc = 0 /\ si = 0 /\ wg = 0
  /\ rChan = <<>> /\ closed = FALSE /\ tpc = <<>> /\ tmm = <<>>
  /\ lpc = "idle" /\ r = <<>> /\ want = <<>>
  /\ HeapIdle

NextChunk ==
  \/ ChunkDirect
  \/ ChunkSplit
  \/ Spawn
  \/ SpawnCloser
  \/ \E t \in 1..cc : TaskSend(t)
  \/ \E t \in 1..cc : TaskDone(t)
  \/ CloserClose
  \/ Receive
  \/ ChunkReturn

\* ChunkFind and ChunkLevenshteinFind on short and long sources.
SpecChunk == InitChunk /\ [][NextChunk]_vars

\* ChunkFind on short and long sources.
InitFair ==
  /\ algo = "match"
  /\ query = Str(<<"$", "t", " ", "c", "a">>)
  /\ source \in {LongSource(n) : n \in ChunkLens}
  /\ FindIdle
  /\ SortIdle
  /\ cpc = "call" /\ cpu = 0 /\ cs = 0 /\ cc = 0 /\ si = 0 /\ wg = 0
  /\ rChan = <<>> /\ closed = FALSE /\ tpc = <<>> /\ tmm = <<>>
  /\ lpc = "idle" /\ r = <<>> /\ want = <<>>
  /\ HeapIdle

\* The Go scheduler runs every goroutine that can take a step: the caller in
\* its loops, every chunk task, and the task that waits and closes.  The
\* fairness of the spawning loop is weak fairness of Spawn with its enabling
\* condition written out.
FairChunk ==
  /\ InitFair
  /\ [][NextChunk]_vars
  /\ ([]<>(~(cpc = "spawn" /\ si < cc)) \/ []<><<si' = si + 1 /\ Spawn>>_vars)
  /\ WF_vars(SpawnCloser)
  /\ \A t \in 1..(MaxCPU + 1) :
       /\ WF_vars(t <= cc /\ TaskSend(t))
       /\ WF_vars(t <= cc /\ TaskDone(t))
  /\ WF_vars(CloserClose)
  /\ WF_vars(Receive) /\ WF_vars(ChunkReturn)

(***************************************************************************)
(* ChunkLevenshteinFind with the chunk tasks scored a block at a time      *)
(***************************************************************************)

ScoreSteps == 2    \* a chunk task scores its chunk in at most ScoreSteps steps

\* The buffer handed to every LevenshteinFind call is the one the first call
\* allocated.
AllocColumnShared(h, queryValue) ==
  IF h = <<>>
  THEN [heap |-> <<NewColumn(queryValue)>>, id |-> 1]
  ELSE [heap |-> h, id |-> 1]

\* "c := make([]int, len(queryValue)+1, len(queryValue)+1)" of one
\* LevenshteinFind call: a new buffer on the heap, and which one it is.
AllocColumn(h, queryValue) ==
  [heap |-> Append(h, NewColumn(queryValue)), id |-> Len(h) + 1]

\* The candidates a chunk task scores in one step.
BlockLen(chunk) == (Len(chunk) + ScoreSteps - 1) \div ScoreSteps

\* Pass si of "for i := range cc": the go statement alone; the task has not
\* run yet.
SpawnTask ==
  /\ cpc = "spawn"
  /\ si < cc
  /\ tpc' = [tpc EXCEPT ![si + 1] = "run"]
  /\ si' = si + 1
  /\ UNCHANGED <<heapVars, query, source, algo, findVars, sortVars, cpc, cpu, cs,
                 cc, wg, rChan, closed, tmm, lpc, r, want>>

\* Task t calls algo, which is LevenshteinFind: the buffer is allocated, find
\* parses the query and makes its empty m.
TaskCall(t) ==
  /\ tpc[t] = "run"
  /\ LET a == AllocColumn(heap, query)
     IN  /\ heap' = a.heap
         /\ tbuf' = (t :> a.id) @@ tbuf
  /\ tn' = (t :> 0) @@ tn
  /\ tmm' = [tmm EXCEPT ![t] = <<>>]
  /\ tpc' = [tpc EXCEPT ![t] = "loop"]
  /\ UNCHANGED <<query, source, algo, findVars, sortVars, cpc, cpu, cs, cc, si,
                 wg, rChan, closed, lpc, r, want>>

\* The candidate at which the step that starts at candidate lo ends.
BlockEnd(chunk, lo) == Min(lo + BlockLen(chunk), Len(chunk))

\* The passes of the loop of find one step of a chunk task takes: from
\* candidate lo on, with the matches and the buffer so far.
TaskBlock(q, chunk, a, lo, m0, column0) ==
  FindLoop(a, input(q), chunk, lo, BlockEnd(chunk, lo),
           [m |-> m0, column |-> column0])

\* Task t scores the next candidates of its chunk with the buffer it holds.
TaskScore(t) ==
  /\ tpc[t] = "loop"
  /\ tn[t] < Len(Chunk(source, t - 1, cs))
  /\ \E res \in {TaskBlock(query, Chunk(source, t - 1, cs), algo, tn[t], tmm[t],
                             heap[tbuf[t]])} :
         /\ tmm' = [tmm EXCEPT ![t] = res.m]
         /\ heap' = [heap EXCEPT ![tbuf[t]] = res.column]
         /\ tn' = [tn EXCEPT ![t] = BlockEnd(Chunk(source, t - 1, cs), tn[t])]
  /\ UNCHANGED <<query, source, algo, findVars, sortVars, cpc, cpu, cs, cc, si,
                 wg, rChan, closed, tpc, lpc, r, want, tbuf>>

\* The loop of find is over in task t: algo returns and the positions are
\* moved by i * cs.
TaskOffset(t) ==
  /\ tpc[t] = "loop"
  /\ tn[t] >= Len(Chunk(source, t - 1, cs))
  /\ tmm' = [tmm EXCEPT ![t] = Offset(tmm[t], (t - 1) * cs)]
  /\ tpc' = [tpc EXCEPT ![t] = "send"]
  /\ UNCHANGED <<heapVars, query, source, algo, findVars, sortVars, cpc, cpu, cs,
                 cc, si, wg, rChan, closed, lpc, r, want>>

\* The least sources that take the parallel path, with cpu = 2.
BufferLens == {2 * ChunkMin + e : e \in 0..MaxExtra}

InitBuffers ==
  /\ algo = "lev"
  /\ query = Str(<<"c", "a", "w">>)
  /\ source \in {LongSource(n) : n \in BufferLens}
  /\ FindIdle
  /\ SortIdle
  /\ cpc = "call" /\ cpu = 0 /\ cs = 0 /\ cc = 0 /\ si = 0 /\ wg = 0
  /\ rChan = <<>> /\ closed = FALSE /\ tpc = <<>> /\ tmm = <<>>
  /\ lpc = "idle" /\ r = <<>> /\ want = <<>>
  /\ HeapIdle

NextBuffers ==
  \/ ChunkDirect
  \/ ChunkSplit
  \/ SpawnTask
  \/ SpawnCloser
  \/ \E t \in 1..cc : TaskCall(t)
  \/ \E t \in 1..cc : TaskScore(t)
  \/ \E t \in 1..cc : TaskOffset(t)
  \/ \E t \in 1..cc : TaskSend(t)
  \/ \E t \in 1..cc : TaskDone(t)
  \/ CloserClose
  \/ Receive
  \/ ChunkReturn

\* ChunkLevenshteinFind with every chunk task in steps of its own.
SpecBuffers == InitBuffers /\ [][NextBuffers]_vars

(***************************************************************************)
(* Notions the properties are stated with                                  *)
(***************************************************************************)

\* A candidate has been scored; Cur is that candidate and Tr what the
\* predicate made of it.
Scored == fpc \in {"loop", "done"} /\ i >= 1
Cur == source[i]
Tr == Predicate(p, Cur)

\* The code points of a string.
RuneSeq(s) == [k \in 1..Len(Runes(s)) |-> Runes(s)[k].r]

RuneCount(s) == Len(Runes(s))

RECURSIVE IsSubseq(_, _)
\* t is an in-order, not necessarily contiguous, subsequence of c: some
\* alignment exists, whichever occurrences it uses.
IsSubseq(t, c) ==
  IF t = <<>> THEN TRUE
  ELSE IF c = <<>> THEN FALSE
  ELSE \/ Head(t) = Head(c) /\ IsSubseq(Tail(t), Tail(c))
       \/ IsSubseq(t, Tail(c))

SingleByte(s) == \A k \in 1..Len(s) : s[k] < 128

\* The least position after from at which ch occurs in c, 0 if none.
NextPos(c, ch, from) ==
  LET at == {j \in (from + 1)..Len(c) : c[j] = ch}
  IN  IF at = {} THEN 0 ELSE CHOOSE j \in at : \A k \in at : j <= k

RECURSIVE GreedyPos(_, _, _, _)
\* The positions in c of the characters t[k..], each the first occurrence
\* after the one before it (prev); t is a subsequence of c.
GreedyPos(t, c, k, prev) ==
  IF k > Len(t) THEN <<>>
  ELSE LET j == NextPos(c, t[k], prev)
       IN  <<j>> \o GreedyPos(t, c, k + 1, j)

RECURSIVE SumSkipped(_, _)
\* Over every position after the first: the characters between it and the
\* position before it.
SumSkipped(pos, k) ==
  IF k > Len(pos) THEN 0
  ELSE (pos[k] - pos[k - 1] - 1) + SumSkipped(pos, k + 1)

GreedyDistance(t, c) == SumSkipped(GreedyPos(t, c, 1, 0), 2)

AsSet(mm) == {mm[k] : k \in 1..Len(mm)}

Match(sc, pos) == [Score |-> sc, Position |-> pos]

\* Both scorers are past their fast paths on the candidate last scored.
PastFastPaths ==
  /\ Tr.found
  /\ Len(Tr.s) >= Len(p.term)
  /\ p.term # Tr.s
  /\ p.term # <<>>
  /\ ~Contains(Tr.s, p.term)

(***************************************************************************)
(* C1                                                                      *)
(***************************************************************************)

\* C1: on every path and under every interleaving of the chunk tasks,
\* chunkFind returns the same set of (Score, Position) pairs as algo on the
\* whole source (want, set when chunkFind is called), so every Position is
\* the candidate's index in the whole source.
C1_ChunkEqualsFind ==
  cpc = "done" =>
    /\ AsSet(r) = AsSet(want)
    /\ \A k \in 1..Len(r) : r[k].Position \in 0..(Len(source) - 1)

\* A parallel run on a source whose length is no multiple of cpu, so that a
\* shorter last chunk exists, returning the matches in another order than
\* algo on the whole source, a match of the last chunk among them.
C1_Witness ==
  /\ cpc = "done" /\ cpu > 1 /\ Len(source) % cpu # 0 /\ cc = cpu + 1
  /\ r # want
  /\ \E k \in 1..Len(r) : r[k].Position >= cpu * cs

(***************************************************************************)
(* C2                                                                      *)
(***************************************************************************)

\* C2: matchScore reports a match (score >= 0) exactly when the predicate
\* passes and the term is an in-order subsequence of the transformed
\* candidate; a transformed candidate shorter than the term is no match.
C2_MatchIffSubsequence ==
  Scored =>
    /\ (score >= 0) <=> (Tr.found /\ IsSubseq(RuneSeq(p.term), RuneSeq(Tr.s)))
    /\ Len(Tr.s) < Len(p.term) => score = -1

\* "$t ct" on "c at t": the filter passes and the greedy scan finds c and t
\* in what it leaves, "cat".
C2_Witness ==
  /\ Scored /\ score >= 0 /\ PastFastPaths
  /\ query = Str(<<"$", "t", " ", "c", "t">>)
  /\ Cur = Str(<<"c", " ", "a", "t", " ", "t">>)

(***************************************************************************)
(* C3                                                                      *)
(***************************************************************************)

\* C3: for a non-empty term that is a contiguous substring of the normalized
\* candidate, the score is the candidate's length minus the term's length,
\* both counted in code points.
C3_SubstringScoreInCodePoints ==
  (Scored /\ p.term # <<>> /\ Tr.found /\ Contains(Tr.s, p.term)) =>
    score = RuneCount(Tr.s) - RuneCount(p.term)

(***************************************************************************)
(* C4                                                                      *)
(***************************************************************************)

\* C4: for single-byte characters, a term that is a subsequence but not a
\* substring of the transformed candidate scores the length difference plus
\* the characters skipped between consecutive greedy occurrences; "ca" in
\* "clap" scores 3 and "tst" in "test" scores 2.
C4_ProximityScore ==
  /\ (Scored /\ PastFastPaths /\ SingleByte(p.term) /\ SingleByte(Tr.s)
        /\ IsSubseq(p.term, Tr.s)) =>
       score = (Len(Tr.s) - Len(p.term)) + GreedyDistance(p.term, Tr.s)
  /\ (Scored /\ p.term = ca /\ p.f = <<>> /\ Cur = clap) => score = 3
  /\ (Scored /\ query = Str(<<"t", "s", "t">>) /\ Cur = Str(<<"t", "e", "s", "t">>)) =>
       score = 2

\* "ct" scored on "cat": one character skipped between c and t.
C4_Witness ==
  /\ Scored /\ PastFastPaths /\ score = 2
  /\ p.term = Str(<<"c", "t">>) /\ Cur = cat

(***************************************************************************)
(* C5                                                                      *)
(***************************************************************************)

\* C5: Find("$t ca", ["cart","clap","ca","cat","cow"]) returns exactly
\* (Score 2, Position 0) and (Score 1, Position 3).
C5_ReadmeEndsWith ==
  (fpc = "done" /\ algo = "match" /\ source = Data
     /\ query = Str(<<"$", "t", " ", "c", "a">>)) =>
    AsSet(m) = {Match(2, 0), Match(1, 3)}

(***************************************************************************)
(* C6                                                                      *)
(***************************************************************************)

\* Some token of the query that is not a filter holds an upper-case letter.
TermHasUpper ==
  \E w \in AsSet(Split(query, Space)) :
    /\ ~IsFilterToken(w)
    /\ \E k \in 1..Len(RuneSeq(w)) : IsUpperRune(RuneSeq(w)[k])

\* C6: the case decision is taken from the bare term alone: with an upper-case
\* letter in the term the candidate is compared as it is, otherwise it is
\* lower-cased first, whatever the filter tokens are; "Test" does not match
\* "test" and "test" scores 0 on "TEST".
C6_CaseFromTermOnly ==
  /\ Scored =>
       score = matchScore(p.term, IF TermHasUpper THEN Cur ELSE ToLower(Cur),
                          [p EXCEPT !.upper = TRUE])
  /\ (Scored /\ query = Str(<<"T", "e", "s", "t">>)
        /\ Cur = Str(<<"t", "e", "s", "t">>)) => score = -1
  /\ (Scored /\ query = Str(<<"t", "e", "s", "t">>)
        /\ Cur = Str(<<"T", "E", "S", "T">>)) => score = 0

\* A lower-case term with an upper-case filter, on a candidate that holds the
\* filter text in upper case.
C6_Witness ==
  /\ Scored /\ query = Str(<<"e", "s", "t", " ", "*", "T">>)
  /\ Cur = Str(<<"T", "e", "s", "t">>) /\ score = -1

(***************************************************************************)
(* C7                                                                      *)
(***************************************************************************)

Count(mm, x) == Cardinality({k \in 1..Len(mm) : mm[k] = x})

\* C7: SortMatches returns a permutation of its input in which every
\* adjacent pair is ordered by score and, on equal scores, by position; an
\* empty input yields an empty output.
C7_SortedPermutation ==
  spc = "done" =>
    /\ Len(sm) = Len(sm0)
    /\ \A x \in Matches : Count(sm, x) = Count(sm0, x)
    /\ \A k \in 1..(Len(sm) - 1) :
         \/ sm[k].Score < sm[k + 1].Score
         \/ sm[k].Score = sm[k + 1].Score /\ sm[k].Position <= sm[k + 1].Position
    /\ sm0 = <<>> => sm = <<>>

\* Three matches of one score handed in by falling position.
C7_Witness ==
  /\ spc = "done"
  /\ sm0 = <<Match(2, 2), Match(2, 1), Match(2, 0)>>
  /\ sm = <<Match(2, 0), Match(2, 1), Match(2, 2)>>

(***************************************************************************)
(* C8                                                                      *)
(***************************************************************************)

RECURSIVE SkipScanCount(_, _, _)
\* One greedy scan that counts the term characters found in order and skips
\* a term character that is not found in what is left of the text.
SkipScanCount(t, c, prev) ==
  IF t = <<>> THEN 0
  ELSE LET j == NextPos(c, Head(t), prev)
       IN  IF j = 0 THEN SkipScanCount(Tail(t), c, prev)
           ELSE 1 + SkipScanCount(Tail(t), c, j)

\* floor(0.6 * n)
Floor06(n) == CHOOSE k \in 0..n : 10 * k <= 6 * n /\ 6 * n < 10 * (k + 1)

\* C8 as stated: past the fast paths the candidate is rejected exactly when
\* the skipping scan finds fewer than floor(0.6 * len(term)) term characters.
C8_GateSkipsMissing ==
  (Scored /\ PastFastPaths) =>
    ((score = -1) <=>
       SkipScanCount(RuneSeq(p.term), RuneSeq(Tr.s), 0) < Floor06(Len(p.term)))

\* The first n code points of the term, all of them if it has fewer.
TermPrefix(n) ==
  SubSeq(RuneSeq(p.term), 1,
         IF n < RuneCount(p.term) THEN n ELSE RuneCount(p.term))

\* C8 amended: past the fast paths the candidate is rejected exactly when the
\* first floor(0.6 * len(term)) characters of the term are not an in-order
\* subsequence of the transformed candidate: the scan stops and rejects at
\* the first of them it does not find, it skips none.
C8_GateNeedsTermPrefix ==
  (Scored /\ PastFastPaths) =>
    ((score = -1) <=>
       ~IsSubseq(TermPrefix(Floor06(Len(p.term))), RuneSeq(Tr.s)))

\* "tast" on "tent": the skipping scan would find t and t, the gate rejects
\* at the a.
C8_Witness ==
  /\ Scored /\ PastFastPaths /\ score = -1
  /\ p.term = Str(<<"t", "a", "s", "t">>) /\ Cur = Str(<<"t", "e", "n", "t">>)

(***************************************************************************)
(* C9                                                                      *)
(***************************************************************************)

\* C9: LevenshteinFind("caw", ["cart","clap","ca","cat","cow"]) returns
\* (2,0), (3,1), (1,2), (1,3) and (1,4).
C9_ReadmeLevenshtein ==
  (fpc = "done" /\ algo = "lev" /\ source = Data
     /\ query = Str(<<"c", "a", "w">>)) =>
    AsSet(m) = {Match(2, 0), Match(3, 1), Match(1, 2), Match(1, 3), Match(1, 4)}

(***************************************************************************)
(* C10                                                                     *)
(***************************************************************************)

\* C10: with a filter token ^x in the query, whatever filters precede it, a
\* candidate is matched only if the candidate itself, case-normalized, starts
\* with x.
C10_StartsWithCandidate ==
  Scored =>
    \A k \in 1..Len(p.f) :
      (HasPrefix(p.f[k], Caret) /\ score >= 0) =>
        HasPrefix(IF p.upper THEN Cur ELSE ToLower(Cur), SliceFrom(p.f[k], 1))

(***************************************************************************)
(* C11                                                                     *)
(***************************************************************************)

\* A token "!" followed by a filter token.
IsNegatedToken(w) == HasPrefix(w, <<33>>) /\ IsFilterToken(SliceFrom(w, 1))

\* The candidate s passes the negated filter w: it does not contain, end
\* with or start with the text of w.
PassesNegated(w, s) ==
  LET x == SliceFrom(w, 2)
  IN  CASE w[2] = 42 -> ~Contains(s, x)
        [] w[2] = 36 -> ~HasSuffix(s, x)
        [] OTHER     -> ~HasPrefix(s, x)

\* The query without its negated tokens.
WithoutNegated ==
  LET ws == SelectSeq(Split(query, Space), LAMBDA w : ~IsNegatedToken(w))
  IN  IF ws = <<>> THEN <<>> ELSE Join(ws)

\* C11: a token "!" followed by a filter is a negated filter: it is left out
\* of the search term, and a candidate is scored as the query without the
\* negated tokens scores it when it passes every negated filter, and is no
\* match when it fails one.
C11_NegatedFilter ==
  LET neg == SelectSeq(Split(query, Space), IsNegatedToken)
      q0  == input(WithoutNegated)
      c   == IF q0.upper THEN Cur ELSE ToLower(Cur)
  IN  (fpc # "call" /\ neg # <<>>) =>
        /\ p.term = q0.term
        /\ Scored =>
             score = IF \A k \in 1..Len(neg) : PassesNegated(neg[k], c)
                     THEN matchScore(q0.term, Cur, [q0 EXCEPT !.empty = FALSE])
                     ELSE -1

(***************************************************************************)
(* C12                                                                     *)
(***************************************************************************)

\* chunkFind has taken the parallel path.
Parallel == cpc \in {"spawn", "recv"} \/ (cpc = "done" /\ cc > 0)

\* The chunk tasks started so far.
Started == Cardinality({t \in 1..Len(tpc) : tpc[t] # "none"})

RECURSIVE ChunksFrom(_)
\* The chunks k, k + 1, .. of the source, one after the other.
ChunksFrom(k) ==
  IF k >= cc THEN <<>> ELSE Chunk(source, k, cs) \o ChunksFrom(k + 1)

\* C12 as stated: on the parallel path the source is cut into exactly cpu
\* chunks and the tasks are never more than cpu.
C12_ExactlyWorkers ==
  Parallel => (cc = cpu /\ Len(tpc) = cpu /\ Started <= cpu)

\* C12 amended: on the parallel path the chunks are cs = len(source) / cpu
\* candidates long and there are cpu of them when cpu divides len(source)
\* and cpu + 1 otherwise, the last one holding the len(source) % cpu
\* candidates left over; the chunks are contiguous and cover the source; one
\* task a chunk is started, so the tasks are never more than cpu + 1, and
\* all of them are started when the spawning loop is over.
C12_ChunksCoverSource ==
  Parallel =>
    /\ cs = Len(source) \div cpu
    /\ cc = IF Len(source) % cpu = 0 THEN cpu ELSE cpu + 1
    /\ Len(tpc) = cc /\ Started = si /\ si <= cc
    /\ cpc # "spawn" => Started = cc
    /\ (cpc = "spawn" /\ si = 0) =>
         /\ \A k \in 0..(cc - 1) :
              Len(Chunk(source, k, cs)) = IF k < cpu THEN cs ELSE Len(source) % cpu
         /\ ChunksFrom(0) = source

\* A parallel run over a source cpu does not divide: cpu + 1 tasks have been
\* started and chunkFind has returned.
C12_Witness ==
  /\ cpc = "done" /\ cc = cpu + 1 /\ Started = cpu + 1
  /\ Len(source) % cpu # 0

(***************************************************************************)
(* C13                                                                     *)
(***************************************************************************)

RECURSIVE TotalLen(_, _)
\* The matches of the tasks k, k + 1, .. counted together.
TotalLen(mms, k) ==
  IF k > Len(mms) THEN 0 ELSE Len(mms[k]) + TotalLen(mms, k + 1)

\* No chunk task is blocked at its send.
NoBlockedSend ==
  \A t \in 1..Len(tpc) : tpc[t] = "send" => ENABLED TaskSend(t)

\* When the parallel path has returned, every chunk task has finished, rChan
\* is closed and empty, and r holds what the tasks sent.
ReturnedAfterAll ==
  (cpc = "done" /\ cc > 0) =>
    /\ \A t \in 1..cc : tpc[t] = "exit"
    /\ wg = 0 /\ lpc = "exit" /\ closed /\ rChan = <<>>
    /\ Len(r) = TotalLen(tmm, 1)
    /\ AsSet(r) = UNION {AsSet(tmm[t]) : t \in 1..cc}

\* C13: on the parallel path chunkFind returns under every fair interleaving
\* of the chunk tasks, the closing task and the caller; it returns only after
\* every chunk task has finished and its result has been received and
\* merged, and no chunk task is ever blocked at its send.
C13_ReturnsAfterJoin ==
  /\ [](NoBlockedSend /\ ReturnedAfterAll)
  /\ (cpc = "spawn") ~> (cpc = "done")

\* Every one of cpu + 1 tasks has delivered its result before the caller has
\* received any: rChan is full.
C13_Witness ==
  /\ cpc = "recv" /\ cc = cpu + 1 /\ Len(rChan) = cc /\ r = <<>>
  /\ lpc = "wait"

(***************************************************************************)
(* C14                                                                     *)
(***************************************************************************)

\* C14: in ChunkLevenshteinFind no two chunk tasks hold the same buffer:
\* every task that has called LevenshteinFind holds a buffer of the heap
\* allocated by its own call, whatever the other tasks have done, and the
\* matches chunkFind returns are those of LevenshteinFind run on the whole
\* source by one caller.
C14_OwnBuffer ==
  /\ \A t1 \in DOMAIN tbuf : \A t2 \in DOMAIN tbuf :
       t1 # t2 => tbuf[t1] # tbuf[t2]
  /\ \A t \in DOMAIN tbuf : tbuf[t] \in 1..Len(heap)
  /\ Len(heap) = Cardinality(DOMAIN tbuf)
  /\ (cpc = "done" /\ cc > 0) => AsSet(r) = AsSet(want)

\* Two chunk tasks are in the middle of their chunks at once, and each has
\* written to its buffer.
C14_Witness ==
  \E t1 \in DOMAIN tbuf : \E t2 \in DOMAIN tbuf :
    /\ t1 # t2
    /\ tpc[t1] = "loop" /\ tpc[t2] = "loop"
    /\ tn[t1] \in 1..(cs - 1) /\ tn[t2] \in 1..(cs - 1)
    /\ heap[tbuf[t1]] # NewColumn(query) /\ heap[tbuf[t2]] # NewColumn(query)

(***************************************************************************)
(* C15                                                                     *)
(***************************************************************************)

RECURSIVE RowLoop(_, _, _, _, _)
\* The row of the distance table for one more byte ch of a, from the row
\* before it: the entries j.. appended to cur.
RowLoop(prev, ch, b, j, cur) ==
  IF j > Len(b) THEN cur
  ELSE RowLoop(prev, ch, b, j + 1,
               Append(cur, Min3(prev[j + 1] + 1, cur[j] + 1,
                                prev[j] + (IF ch = b[j] THEN 0 ELSE 1))))

RECURSIVE Rows(_, _, _, _)
Rows(a, b, k, prev) ==
  IF k > Len(a) THEN prev
  ELSE Rows(a, b, k + 1, RowLoop(prev, a[k], b, 1, <<prev[1] + 1>>))

\* The unit-cost Levenshtein distance of two byte strings: the least number
\* of insertions, deletions and substitutions of one byte that make a into b.
EditDistance(a, b) ==
  Rows(a, b, 1, [j \in 1..(Len(b) + 1) |-> j - 1])[Len(b) + 1]

FilterTexts == {SliceFrom(p.f[k], 1) : k \in 1..Len(p.f)}

\* C16 as stated: when the bare term holds no upper-case letter, a query
\* with a filter whose text holds an upper-case letter matches no candidate,
\* in Find and in LevenshteinFind.
C16_UpperFilterNeverMatches ==
  (fpc # "call" /\ ~p.empty /\ ~p.upper /\ \E x \in FilterTexts : isUpper(x)) =>
    /\ m = <<>>
    /\ Scored => score = -1

\* C16 amended: when the bare term holds no upper-case letter, the
\* candidates are lower-cased and the filter texts are used as typed, so a
\* query with a filter whose text lower-casing would change (it holds an
\* upper-case letter that has a lower-case form) matches no candidate, in
\* Find and in LevenshteinFind, even a candidate that holds the filter text.
C16_CasedFilterNeverMatches ==
  (fpc # "call" /\ ~p.empty /\ ~p.upper /\ \E x \in FilterTexts : ToLower(x) # x) =>
    /\ m = <<>>
    /\ Scored => (score = -1 /\ ~Tr.found)

\* LevenshteinFind with "est *T" on "Test": the candidate holds the filter
\* text and the term, and is no match.
C16_Witness ==
  /\ Scored /\ algo = "lev" /\ score = -1
  /\ query = Str(<<"e", "s", "t", " ", "*", "T">>)
  /\ Cur = Str(<<"T", "e", "s", "t">>)
  /\ Contains(Cur, Str(<<"T">>)) /\ Contains(Cur, p.term)

====
